---- MODULE Spec2Model ----
(***************************************************************************)
(* kainonly/go: the Redis-backed attempt counter (package locker) and the  *)
(* one-time code store (package captcha).                                  *)
(*                                                                         *)
(* The state is the Redis keyspace (value and expiry deadline per key),    *)
(* the server clock, and one record per calling goroutine: the call it has *)
(* in flight or the result of the call it last returned from.  Goroutines  *)
(* have no identity of their own, so their records form a bag.  A call is  *)
(* two steps, the request leaving the caller and the single Redis command  *)
(* (or script) it carries being executed and answered, so that calls of    *)
(* different goroutines overlap.  A request or its reply may be lost       *)
(* (cancelled context, broken connection).                                 *)
(***************************************************************************)
EXTENDS Integers, Sequences, FiniteSets, Bags, TLC

(* ---------------------------- bounds ---------------------------------- *)

\* number of concurrently calling goroutines
NClients == 2
\* the server clock runs from 0 to MaxTime milliseconds
MaxTime == 2
\* at most MaxCount Increment calls are executed per window of a counter
MaxCount == 3
\* at most MaxCreates Create calls are executed per name
MaxCreates == 2
\* time.Millisecond, in the duration unit of the model (Go: 1e6 ns)
Millisecond == 2

Names == {"a", "b"}
\* ttl arguments of Increment: under a millisecond, one millisecond, two
LockerTTLs == {Millisecond \div 2, Millisecond, 2 * Millisecond}
\* thresholds passed to Check
Maxes == 1..MaxCount
\* max arguments of Check that are no positive number
LowMaxes == -1..0
\* one-time codes, as strings of characters
Codes == {<<"7">>, <<"a", "b">>}
\* ttl arguments of Create: none, sub-millisecond, one millisecond
CaptchaTTLs == {0, Millisecond \div 2, Millisecond}

\* values an outside writer leaves in a counter key: not integers
Garbage == {<<"a", "b", "c">>, <<"1", "x">>}

(* ------------------------- strings and integers ----------------------- *)

Digits == <<"0", "1", "2", "3", "4", "5", "6", "7", "8", "9">>

IsDigit(ch) == \E i \in 1..10 : Digits[i] = ch

DigitVal(ch) == (CHOOSE i \in 1..10 : Digits[i] = ch) - 1

\* decimal rendering of an integer (Redis stores the counter as a string)
RECURSIVE Itoa(_)
Itoa(n) ==
    IF n < 0 THEN <<"-">> \o Itoa(-n)
    ELSE IF n < 10 THEN <<Digits[n + 1]>>
    ELSE Itoa(n \div 10) \o <<Digits[(n % 10) + 1]>>

RECURSIVE DigitsValue(_)
DigitsValue(s) ==
    IF Len(s) = 0 THEN 0
    ELSE 10 * DigitsValue(SubSeq(s, 1, Len(s) - 1)) + DigitVal(s[Len(s)])

AllDigits(s) == Len(s) > 0 /\ \A i \in 1..Len(s) : IsDigit(s[i])

\* strconv.ParseInt(s, 10, 64), as StringCmd.Int64 applies it to a GET reply
ParseInt(s) ==
    LET signed == Len(s) > 0 /\ s[1] \in {"+", "-"}
        body == IF signed THEN Tail(s) ELSE s
    IN  IF ~AllDigits(body) THEN [ok |-> FALSE, n |-> 0]
        ELSE [ok |-> TRUE,
              n |-> IF signed /\ s[1] = "-" THEN -DigitsValue(body)
                    ELSE DigitsValue(body)]

\* Redis string2ll, the parse INCR applies to the stored value: no "+",
\* no leading zero, no "-0"
String2ll(s) ==
    LET neg == Len(s) > 0 /\ s[1] = "-"
        body == IF neg THEN Tail(s) ELSE s
    IN  IF ~AllDigits(body) THEN [ok |-> FALSE, n |-> 0]
        ELSE IF body = <<"0">> THEN [ok |-> ~neg, n |-> 0]
        ELSE IF body[1] = "0" THEN [ok |-> FALSE, n |-> 0]
        ELSE [ok |-> TRUE, n |-> IF neg THEN -DigitsValue(body) ELSE DigitsValue(body)]

\* time.Duration.Milliseconds: integer division, rounding toward zero
Milliseconds(d) == d \div Millisecond

(* ------------------------------ keys ---------------------------------- *)

\* Locker.Prefix / Captcha.Prefix as New sets them with no option
LockerPrefix == "locker"
CaptchaPrefix == "captcha"

\* the key without its separator
KeyPlain(prefix, name) == prefix \o name

\* fmt.Sprintf("%s:%s", x.Prefix, name)
Key(prefix, name) == prefix \o ":" \o name

LockerKey(name) == Key(LockerPrefix, name)
CaptchaKey(name) == Key(CaptchaPrefix, name)

LockerKeys == {LockerKey(n) : n \in Names}
CaptchaKeys == {CaptchaKey(n) : n \in Names}
AllKeys == LockerKeys \cup CaptchaKeys

\* prefixes given to SetPrefix, next to the defaults, and the names used
\* with them: names carry ":" as in "login:test", "api:users", "sms:123"
LockerPrefixes == {LockerPrefix, "rate"}
CaptchaPrefixes == {CaptchaPrefix, "rate:api"}
KeyNames == {"users", "api:users"}
KeySpace == {Key(p, n) : p \in LockerPrefixes \cup CaptchaPrefixes, n \in KeyNames}

\* what may follow a prefix and ":" in a longer prefix
Segments == {"", "api", "users"}

\* prefix q begins with prefix p and ":"
Extends(q, p) == \E r \in Segments : q = p \o ":" \o r

(* --------------------------- the Redis store -------------------------- *)

\* a key without expiry (TTL -1)
NoExpiry == -1

Absent == [present |-> FALSE, val |-> <<>>, exp |-> NoExpiry]

Entry(v, e) == [present |-> TRUE, val |-> v, exp |-> e]

\* replies of a command: status is "ok", "nil" (redis.Nil) or "err" (an
\* error reply of the server)
Reply(st, n, v) == [status |-> st, n |-> n, val |-> v]

\* the outcome of a command: the new keyspace and the reply
Out(s, r) == [store |-> s, reply |-> r]

\* keys whose deadline has passed are gone (keyIsExpired: now > when)
Expired(e, t) == e.present /\ e.exp # NoExpiry /\ t > e.exp

ExpireKeys(s, t) == [k \in DOMAIN s |-> IF Expired(s[k], t) THEN Absent ELSE s[k]]

\* an INCR that counts down a counter that is there
RedisIncrDown(s, key) ==
    IF ~s[key].present
    THEN Out([s EXCEPT ![key] = Entry(Itoa(1), NoExpiry)], Reply("ok", 1, <<>>))
    ELSE LET p == String2ll(s[key].val)
         IN  IF ~p.ok \/ p.n = 0 THEN Out(s, Reply("err", 0, <<>>))
             ELSE Out([s EXCEPT ![key].val = Itoa(p.n - 1)], Reply("ok", p.n - 1, <<>>))

\* INCR key
RedisIncr(s, key) ==
    IF ~s[key].present
    THEN Out([s EXCEPT ![key] = Entry(Itoa(1), NoExpiry)], Reply("ok", 1, <<>>))
    ELSE LET p == String2ll(s[key].val)
         IN  IF ~p.ok THEN Out(s, Reply("err", 0, <<>>))
             ELSE Out([s EXCEPT ![key].val = Itoa(p.n + 1)], Reply("ok", p.n + 1, <<>>))

\* PEXPIRE key ms: a deadline that is not in the future deletes the key
RedisPExpire(s, key, ms, t) ==
    IF ~s[key].present THEN Out(s, Reply("ok", 0, <<>>))
    ELSE IF t + ms <= t THEN Out([s EXCEPT ![key] = Absent], Reply("ok", 1, <<>>))
    ELSE Out([s EXCEPT ![key].exp = t + ms], Reply("ok", 1, <<>>))

\* a read that consumes the key (GETDEL where GET was meant)
RedisGetConsume(s, key) ==
    IF s[key].present THEN Out([s EXCEPT ![key] = Absent], Reply("ok", 0, s[key].val))
    ELSE Out(s, Reply("nil", 0, <<>>))

\* GET key
RedisGet(s, key) ==
    IF s[key].present THEN Out(s, Reply("ok", 0, s[key].val))
    ELSE Out(s, Reply("nil", 0, <<>>))

\* a DEL that empties the keyspace (FLUSHDB)
RedisFlush(s, key) ==
    Out([k \in DOMAIN s |-> Absent], Reply("ok", IF s[key].present THEN 1 ELSE 0, <<>>))

\* a DEL that counts the key and leaves it in place
RedisDelKeep(s, key) ==
    Out(s, Reply("ok", IF s[key].present THEN 1 ELSE 0, <<>>))

\* DEL key
RedisDel(s, key) ==
    IF s[key].present THEN Out([s EXCEPT ![key] = Absent], Reply("ok", 1, <<>>))
    ELSE Out(s, Reply("ok", 0, <<>>))

(* ------------------------------ locker -------------------------------- *)

\* the script answering with the count it read before the increment
IncrWithExpireStale(s, key, ms, t) ==
    LET inc == RedisIncr(s, key)
    IN  IF inc.reply.status = "err" THEN inc
        ELSE IF inc.reply.n = 1
             THEN Out(RedisPExpire(inc.store, key, ms, t).store, Reply("ok", 0, <<>>))
             ELSE Out(inc.store, Reply("ok", inc.reply.n - 1, <<>>))

\* the script setting the expiry on every increment (a sliding window)
IncrWithExpireAlways(s, key, ms, t) ==
    LET inc == RedisIncr(s, key)
    IN  IF inc.reply.status = "err" THEN inc
        ELSE Out(RedisPExpire(inc.store, key, ms, t).store, inc.reply)

\* the script without its PEXPIRE
IncrWithExpireNever(s, key, ms, t) == RedisIncr(s, key)

\* the Lua script incrWithExpire, run as one unit by the server
IncrWithExpire(s, key, ms, t) ==
    LET inc == RedisIncr(s, key)
    IN  IF inc.reply.status = "err" THEN inc
        ELSE IF inc.reply.n = 1
             THEN Out(RedisPExpire(inc.store, key, ms, t).store, inc.reply)
             ELSE inc


\* what a caller gets back from one call: an integer, a boolean, a status
\* string and an error ("nil" is Go's nil error)
Result(n, b, str, err) == [n |-> n, b |-> b, str |-> str, err |-> err]

\* the command failed on the way (cancelled context, broken connection)
IoError == Reply("io", 0, <<>>)

\* the error a failed command hands to the caller
CmdErr(r) == IF r.status = "io" THEN "io" ELSE "redis"

\* Locker.Increment: the script's integer, or (0, err)
IncrementResult(r) ==
    IF r.status # "ok" THEN Result(0, FALSE, "", CmdErr(r))
    ELSE Result(r.n, FALSE, "", "nil")

\* Check locking only above max
CheckResultStrict(r, max) ==
    IF r.status = "nil" THEN Result(0, FALSE, "", "nil")
    ELSE IF r.status # "ok" THEN Result(0, FALSE, "", CmdErr(r))
    ELSE LET p == ParseInt(r.val)
         IN  IF ~p.ok THEN Result(0, FALSE, "", "parse")
             ELSE IF p.n > max THEN Result(0, FALSE, "", "ErrLocked")
             ELSE Result(0, FALSE, "", "nil")

\* Check reading an absent counter as the count 0
CheckResultZero(r, max) ==
    IF r.status = "nil"
    THEN Result(0, FALSE, "", IF 0 >= max THEN "ErrLocked" ELSE "nil")
    ELSE IF r.status # "ok" THEN Result(0, FALSE, "", CmdErr(r))
    ELSE LET p == ParseInt(r.val)
         IN  IF ~p.ok THEN Result(0, FALSE, "", "parse")
             ELSE IF p.n >= max THEN Result(0, FALSE, "", "ErrLocked")
             ELSE Result(0, FALSE, "", "nil")

\* Locker.Check: Get(...).Int64() against max
CheckResult(r, max) ==
    IF r.status = "nil" THEN Result(0, FALSE, "", "nil")
    ELSE IF r.status # "ok" THEN Result(0, FALSE, "", CmdErr(r))
    ELSE LET p == ParseInt(r.val)
         IN  IF ~p.ok THEN Result(0, FALSE, "", "parse")
             ELSE IF p.n >= max THEN Result(0, FALSE, "", "ErrLocked")
             ELSE Result(0, FALSE, "", "nil")

\* Get taking the reply's integer field instead of parsing its string
GetResultRaw(r) ==
    IF r.status = "nil" THEN Result(0, FALSE, "", "nil")
    ELSE IF r.status # "ok" THEN Result(0, FALSE, "", CmdErr(r))
    ELSE Result(r.n, FALSE, "", "nil")

\* Get coercing a value it cannot parse to zero
GetResultLenient(r) ==
    IF r.status = "nil" THEN Result(0, FALSE, "", "nil")
    ELSE IF r.status # "ok" THEN Result(0, FALSE, "", CmdErr(r))
    ELSE Result(ParseInt(r.val).n, FALSE, "", "nil")

\* Locker.Get: Get(...).Int64(), 0 for redis.Nil
GetResult(r) ==
    IF r.status = "nil" THEN Result(0, FALSE, "", "nil")
    ELSE IF r.status # "ok" THEN Result(0, FALSE, "", CmdErr(r))
    ELSE LET p == ParseInt(r.val)
         IN  IF ~p.ok THEN Result(0, FALSE, "", "parse")
             ELSE Result(p.n, FALSE, "", "nil")

\* Delete reporting success instead of the number of keys removed
DeleteResultOne(r) ==
    IF r.status # "ok" THEN Result(0, FALSE, "", "nil")
    ELSE Result(1, FALSE, "", "nil")

\* Locker.Delete and Captcha.Delete: Del(...).Val(), the error is dropped
DeleteResult(r) ==
    IF r.status # "ok" THEN Result(0, FALSE, "", "nil")
    ELSE Result(r.n, FALSE, "", "nil")

(* ------------------------------ captcha ------------------------------- *)

\* time.Second
Second == 1000 * Millisecond

\* go-redis usePrecise / formatMs / formatSec: the expiry Set sends
UsePrecise(d) == d < Second \/ d % Second # 0

FormatMs(d) == IF d > 0 /\ d < Millisecond THEN 1 ELSE d \div Millisecond

FormatSec(d) == IF d > 0 /\ d < Second THEN 1 ELSE d \div Second

\* SET key value [PX ms | EX s]: expiration 0 sends no expiry at all
RedisSet(s, key, v, d, t) ==
    LET ms == IF UsePrecise(d) THEN FormatMs(d) ELSE 1000 * FormatSec(d)
    IN  IF d > 0
        THEN Out([s EXCEPT ![key] = Entry(v, t + ms)], Reply("ok", 0, <<"O", "K">>))
        ELSE Out([s EXCEPT ![key] = Entry(v, NoExpiry)], Reply("ok", 0, <<"O", "K">>))

\* an existence test that takes the key away (GETDEL where EXISTS was meant)
RedisExistsConsume(s, key) ==
    IF s[key].present THEN Out([s EXCEPT ![key] = Absent], Reply("ok", 1, <<>>))
    ELSE Out(s, Reply("ok", 0, <<>>))

\* EXISTS key
RedisExists(s, key) ==
    Out(s, Reply("ok", IF s[key].present THEN 1 ELSE 0, <<>>))

\* a plain GET where GETDEL was meant: the code stays
RedisGetKeep(s, key) ==
    IF s[key].present THEN Out(s, Reply("ok", 0, s[key].val))
    ELSE Out(s, Reply("nil", 0, <<>>))

\* GETDEL key
RedisGetDel(s, key) ==
    IF s[key].present
    THEN Out([s EXCEPT ![key] = Absent], Reply("ok", 0, s[key].val))
    ELSE Out(s, Reply("nil", 0, <<>>))

\* Captcha.Create: Set(...).Val(), "" when the command failed
CreateResult(r) ==
    IF r.status # "ok" THEN Result(0, FALSE, "", "nil")
    ELSE Result(0, FALSE, "OK", "nil")

\* Captcha.Exists: Exists(...).Val() != 0
ExistsResult(r) ==
    IF r.status # "ok" THEN Result(0, FALSE, "", "nil")
    ELSE Result(0, r.n # 0, "", "nil")

\* Verify reporting every failed read as a wrong code
VerifyResultBlunt(r, code) ==
    IF r.status # "ok" THEN Result(0, FALSE, "", "ErrInvalidCode")
    ELSE IF r.val # code THEN Result(0, FALSE, "", "ErrInvalidCode")
    ELSE Result(0, FALSE, "", "nil")

\* Captcha.Verify
VerifyResult(r, code) ==
    IF r.status = "nil" THEN Result(0, FALSE, "", "ErrNotExists")
    ELSE IF r.status # "ok" THEN Result(0, FALSE, "", CmdErr(r))
    ELSE IF r.val # code THEN Result(0, FALSE, "", "ErrInvalidCode")
    ELSE Result(0, FALSE, "", "nil")


(* ----------------------- the command of a method ---------------------- *)

\* a method call: the method, the name, and the code and ttl it passes
Cmd(op, name, code, ttl) == [op |-> op, name |-> name, code |-> code, ttl |-> ttl]

\* the calls of the two components, over all arguments
Cmds ==
    {Cmd("Increment", n, <<>>, ttl) : n \in Names, ttl \in LockerTTLs}
        \cup {Cmd(op, n, <<>>, 0) : op \in {"Check", "Get", "Delete"}, n \in Names}
        \cup {Cmd("Create", n, v, ttl) : n \in Names, v \in Codes, ttl \in CaptchaTTLs}
        \cup {Cmd(op, n, <<>>, 0) : op \in {"Exists", "Verify", "CaptchaDelete"}, n \in Names}

\* the key a call addresses, with the default prefixes
CmdKey(c) ==
    IF c.op \in {"Increment", "Check", "Get", "Delete"} THEN LockerKey(c.name)
    ELSE CaptchaKey(c.name)

\* the command (or script) a call sends, executed on keyspace s at time t
Apply(c, s, t) ==
    LET k == CmdKey(c)
    IN  CASE c.op = "Increment" -> IncrWithExpire(s, k, Milliseconds(c.ttl), t)
          [] c.op \in {"Check", "Get"} -> RedisGet(s, k)
          [] c.op = "Delete" -> RedisDel(s, k)
          [] c.op = "Create" -> RedisSet(s, k, c.code, c.ttl, t)
          [] c.op = "Exists" -> RedisExists(s, k)
          [] c.op = "Verify" -> RedisGetDel(s, k)
          [] c.op = "CaptchaDelete" -> RedisDel(s, k)

(* ------------------------------- csrf --------------------------------- *)

\* HTTP methods of the requests the middleware sees
Methods == {"GET", "HEAD", "OPTIONS", "TRACE", "POST", "DELETE"}

\* the IgnoreMethods map New builds
DefaultIgnoreMethods == {"GET", "HEAD", "OPTIONS", "TRACE"}

\* secret keys given to SetKey
CsrfKeys == {"secret", "other"}

\* values of the salt cookie; "" is what c.Cookie yields for no cookie
Salts == {"", "abcd1234", "salt2"}

\* http.StatusForbidden
StatusForbidden == 403

\* New(SetKey(key)) and New(SetKey(key), SetIgnoreMethods(ms))
NewCsrf(key, ms) == [Key |-> key, IgnoreMethods |-> ms]

\* an HMAC that leaves the key out
TokenizeKeyless(x, salt) == [mac |-> "", msg |-> salt]

\* Csrf.Tokenize: hex(HMAC-SHA256(Key, salt)), an HMAC without collisions:
\* tokens are equal iff key and salt are
Tokenize(x, salt) == [mac |-> x.Key, msg |-> salt]

\* the token header of a request: absent (GetHeader yields nil) or a value
NoHeader == [present |-> FALSE, val |-> [mac |-> "", msg |-> ""]]

Header(v) == [present |-> TRUE, val |-> v]

\* header values: every token of every key, and a string that is no token
\* of any key
Headers ==
    {NoHeader} \cup {Header([mac |-> k, msg |-> s]) : k \in CsrfKeys \cup {"invalid"}, s \in Salts}

Request(method, salt, header) == [method |-> method, salt |-> salt, header |-> header]

\* the requests the middleware is given
Requests == {Request(m, s, h) : m \in Methods, s \in Salts, h \in Headers}

\* the IgnoreMethods of an instance: New's, or what SetIgnoreMethods leaves
IgnoreSets == {DefaultIgnoreMethods, {}, {"POST"}}

\* the options given to New: SetKey(key), with SetIgnoreMethods(ms) or
\* without it
NoMethods == [given |-> FALSE, ms |-> {}]

Given(ms) == [given |-> TRUE, ms |-> ms]

Options(key, ignore) == [key |-> key, ignore |-> ignore]

OptionLists ==
    {Options(key, i) : key \in CsrfKeys, i \in {NoMethods} \cup {Given(ms) : ms \in IgnoreSets}}

\* an option adding its methods to the ignored ones
SetIgnoreMethodsAdd(x, ms) == [x EXCEPT !.IgnoreMethods = @ \cup ms]

\* the option SetIgnoreMethods(ms) applied to x: a new map holding ms
SetIgnoreMethods(x, ms) == [x EXCEPT !.IgnoreMethods = ms]

\* csrf.New(options...): the defaults, then each option applied
New(o) ==
    LET x == NewCsrf(o.key, DefaultIgnoreMethods)
    IN  IF o.ignore.given THEN SetIgnoreMethods(x, o.ignore.ms) ELSE x

\* what the middleware did with a request: ran the next handler, or
\* aborted with a status and a message
Passed == [next |-> TRUE, status |-> 0, message |-> ""]

Aborted(status, message) == [next |-> FALSE, status |-> status, message |-> message]

\* the middleware checking the header before the salt cookie
VerifyTokenHeaderFirst(x, r) ==
    IF r.method \in x.IgnoreMethods THEN Passed
    ELSE IF ~r.header.present THEN Aborted(StatusForbidden, "ErrMissingHeader")
    ELSE IF r.salt = "" THEN Aborted(StatusForbidden, "ErrMissingSalt")
    ELSE IF Tokenize(x, r.salt) # r.header.val
         THEN Aborted(StatusForbidden, "ErrInvalidToken")
    ELSE Passed

\* what help.Random(DefaultSaltLength) yields: strings of 16 letters and
\* digits, never the empty one
RandomSalts == Salts \ {""}

\* the cookies a browser holds: the salt cookie and the token cookie
Cookies(salt, token) == [salt |-> salt, token |-> token]

NoCookies == Cookies("", [mac |-> "", msg |-> ""])

\* the two cookies Csrf.SetToken writes for a salt
SetCookies(x, salt) == Cookies(salt, Tokenize(x, salt))

\* a request of method m that returns the salt cookie and carries the token
\* cookie in the header
EchoRequest(j, m) == Request(m, j.salt, Header(j.token))

\* the handler Csrf.VerifyToken returns, applied to request r
VerifyToken(x, r) ==
    IF r.method \in x.IgnoreMethods THEN Passed
    ELSE IF r.salt = "" THEN Aborted(StatusForbidden, "ErrMissingSalt")
    ELSE IF ~r.header.present THEN Aborted(StatusForbidden, "ErrMissingHeader")
    ELSE IF Tokenize(x, r.salt) # r.header.val
         THEN Aborted(StatusForbidden, "ErrInvalidToken")
    ELSE Passed

(* ------------------------------ passport ------------------------------ *)

\* secret keys given to SetKey, issuers given to SetIssuer
PassportKeys == {"key1", "key2"}

Issuers == {"dev", "beta"}

\* signing methods a token's header can name
Algs == {"HS256", "HS384", "ES256"}

\* New(SetIssuer(issuer), SetKey(key))
NewPassport(issuer, key) == [Issuer |-> issuer, Key |-> key]

\* a Go value held in Claims.Data, and a JSON value: a kind and its text
GoValue(kind, text) == [kind |-> kind, text |-> text]

\* encoding/json on a value: Go's int and float64 are both JSON numbers, and
\* a JSON number decoded into interface{} is a float64
ToJson(v) ==
    IF v.kind \in {"int", "float64"} THEN GoValue("number", v.text) ELSE v

FromJson(j) ==
    IF j.kind = "number" THEN GoValue("float64", j.text) ELSE j

\* Claims.Data, a map[string]interface{}: nil, or a set of entries
NilData == [nil |-> TRUE, m |-> {}]

MapData(entries) == [nil |-> FALSE, m |-> entries]

\* the data field of the JSON object: left out (omitempty) for a nil and for
\* an empty map
MarshalData(d) ==
    IF d.nil \/ d.m = {} THEN [has |-> FALSE, m |-> {}]
    ELSE [has |-> TRUE, m |-> {<<e[1], ToJson(e[2])>> : e \in d.m}]

UnmarshalData(j) ==
    IF ~j.has THEN NilData
    ELSE MapData({<<e[1], FromJson(e[2])>> : e \in j.m})

\* no ExpiresAt, no NotBefore
NoDate == -1

\* Claims: ActiveId, Data and the registered claims ID (jti), Issuer,
\* ExpiresAt and NotBefore
Claims(activeId, id, data, issuer, exp, nbf) ==
    [ActiveId |-> activeId, ID |-> id, Data |-> data, Issuer |-> issuer,
     ExpiresAt |-> exp, NotBefore |-> nbf]

\* var claims Claims
ZeroClaims == Claims("", "", NilData, "", NoDate, NoDate)

\* NewClaims(activeId, expire) at time t
NewClaims(activeId, expire, t) == Claims(activeId, "", NilData, "", t + expire, t)

\* claims values handed to Create: with and without jti and data, with no
\* issuer or another one, expiring early, late or never
ActiveIds == {"user1", "user2"}

JTIs == {"", "jti1"}

Datas ==
    {NilData, MapData({}), MapData({<<"role", GoValue("string", "admin")>>}),
     MapData({<<"n", GoValue("int", "1")>>})}

ExpDates == {NoDate, 1, MaxTime + 1}

NbfDates == {NoDate, 1}

ClaimsSet ==
    {Claims(a, j, d, i, e, n) :
        a \in ActiveIds, j \in JTIs, d \in Datas, i \in {"", "other"},
        e \in ExpDates, n \in NbfDates}

\* claims of the tokens made elsewhere
ForgedClaims ==
    {Claims("user1", "jti1", NilData, i, e, NoDate) : i \in Issuers, e \in ExpDates}

\* the claims as the JSON object of the token, and back
MarshalClaims(c) ==
    [active_id |-> c.ActiveId, jti |-> c.ID, data |-> MarshalData(c.Data),
     iss |-> c.Issuer, exp |-> c.ExpiresAt, nbf |-> c.NotBefore]

UnmarshalClaims(j) ==
    Claims(j.active_id, j.jti, UnmarshalData(j.data), j.iss, j.exp, j.nbf)

\* a token string: header.payload.signature, signed with method alg under
\* key (signatures without collisions), or a string that is no token
Signed(alg, key, payload) == [wf |-> TRUE, alg |-> alg, key |-> key, payload |-> payload]

Garbled == [wf |-> FALSE, alg |-> "", key |-> "", payload |-> MarshalClaims(ZeroClaims)]

\* (string, error) of Create, (Claims, error) of Verify
Minted(token, err) == [token |-> token, err |-> err]

Parsed(claims, err) == [claims |-> claims, err |-> err]

\* Create leaving the issuer the claims came with
PassportCreateKeep(x, c) ==
    Minted(Signed("HS256", x.Key, MarshalClaims(c)), "nil")

\* Passport.Create
PassportCreate(x, c) ==
    Minted(Signed("HS256", x.Key, MarshalClaims([c EXCEPT !.Issuer = x.Issuer])), "nil")

\* the validator of the jwt library at time t: exp must lie ahead, nbf must
\* not
TimeError(c, t) ==
    IF c.ExpiresAt # NoDate /\ ~(t < c.ExpiresAt) THEN "ErrTokenExpired"
    ELSE IF c.NotBefore # NoDate /\ t < c.NotBefore THEN "ErrTokenNotValidYet"
    ELSE "nil"

\* Verify comparing the issuer before the signature is checked
PassportVerifyIssuerFirst(x, tok, t) ==
    IF ~tok.wf THEN Parsed(ZeroClaims, "ErrTokenMalformed")
    ELSE LET c == UnmarshalClaims(tok.payload)
         IN  IF c.Issuer # x.Issuer THEN Parsed(c, "ErrInvalidIssuer")
             ELSE IF tok.alg # "HS256" THEN Parsed(c, "ErrInvalidSigningMethod")
             ELSE IF tok.key # x.Key THEN Parsed(c, "ErrTokenSignatureInvalid")
             ELSE Parsed(c, TimeError(c, t))

\* Passport.Verify at time t: jwt.ParseWithClaims (parse, key function,
\* signature, validator), then the issuer
PassportVerify(x, tok, t) ==
    IF ~tok.wf THEN Parsed(ZeroClaims, "ErrTokenMalformed")
    ELSE LET c == UnmarshalClaims(tok.payload)
         IN  IF tok.alg # "HS256" THEN Parsed(c, "ErrInvalidSigningMethod")
             ELSE IF tok.key # x.Key THEN Parsed(c, "ErrTokenSignatureInvalid")
             ELSE IF TimeError(c, t) # "nil" THEN Parsed(c, TimeError(c, t))
             ELSE IF c.Issuer # x.Issuer THEN Parsed(c, "ErrInvalidIssuer")
             ELSE Parsed(c, "nil")

(* ------------------------------ passlib ------------------------------- *)

\* DefaultMemoryCost, DefaultTimeCost, DefaultThreads, argon2.Version
DefaultMemoryCost == 65536

DefaultTimeCost == 4

DefaultThreads == 1

Argon2Version == 19

\* the largest uint8: threads is scanned into a uint8
MaxUint8 == 255

\* byte strings: a salt, or the key argon2.IDKey derives (a derivation
\* without collisions)
Bytes(pw, salt, time, memory, threads) ==
    [pw |-> pw, salt |-> salt, time |-> time, memory |-> memory, threads |-> threads]

SaltBytes(s) == Bytes("", s, 0, 0, 0)

IDKey(pw, salt, time, memory, threads) == Bytes(pw, salt.salt, time, memory, threads)

\* the text of a hash, as a sequence of pieces: a word, a decimal number,
\* or the unpadded base64 text of a byte string
Word(s) == [k |-> "word", s |-> s, n |-> 0, b |-> SaltBytes("")]

Num(n) == [k |-> "num", s |-> "", n |-> n, b |-> SaltBytes("")]

B64(b) == [k |-> "b64", s |-> "", n |-> 0, b |-> b]

Dollar == Word("$")

\* strings.Split(hash, "$"): the parts between the "$"
RECURSIVE Split(_)
Split(h) ==
    IF h = <<>> THEN << <<>> >>
    ELSE LET rest == Split(Tail(h))
         IN  IF Head(h) = Dollar THEN << <<>> >> \o rest
             ELSE << <<Head(h)>> \o Head(rest) >> \o Tail(rest)

\* fmt.Sscanf(part, "v=%d", &version): text after the number is ignored
ScanVersion(part) ==
    IF Len(part) >= 2 /\ part[1] = Word("v=") /\ part[2].k = "num"
    THEN [ok |-> TRUE, version |-> part[2].n]
    ELSE [ok |-> FALSE, version |-> 0]

\* fmt.Sscanf(part, "m=%d,t=%d,p=%d", &memory, &time, &threads)
ScanParams(part) ==
    IF /\ Len(part) >= 6
       /\ part[1] = Word("m=") /\ part[2].k = "num"
       /\ part[3] = Word(",t=") /\ part[4].k = "num"
       /\ part[5] = Word(",p=") /\ part[6].k = "num" /\ part[6].n <= MaxUint8
    THEN [ok |-> TRUE, memory |-> part[2].n, time |-> part[4].n, threads |-> part[6].n]
    ELSE [ok |-> FALSE, memory |-> 0, time |-> 0, threads |-> 0]

\* base64.RawStdEncoding.Strict().DecodeString(part)
DecodeString(part) ==
    IF part = <<>> THEN [ok |-> TRUE, b |-> SaltBytes("")]
    ELSE IF Len(part) = 1 /\ part[1].k = "b64" THEN [ok |-> TRUE, b |-> part[1].b]
    ELSE [ok |-> FALSE, b |-> SaltBytes("")]

\* (memory, time, threads, salt, key, err) of parseHash
HashParams(memory, time, threads, salt, key, err) ==
    [memory |-> memory, time |-> time, threads |-> threads, salt |-> salt, key |-> key,
     err |-> err]

HashError(err) == HashParams(0, 0, 0, SaltBytes(""), SaltBytes(""), err)

\* parseHash testing the version before the variant
ParseHashVersionFirst(hash) ==
    LET parts == Split(hash)
    IN  IF Len(parts) # 6 THEN HashError("ErrInvalidHash")
        ELSE IF ~ScanVersion(parts[3]).ok \/ ScanVersion(parts[3]).version # Argon2Version
             THEN HashError("ErrIncompatibleVersion")
        ELSE IF parts[2] # <<Word("argon2id")>> THEN HashError("ErrIncompatibleVariant")
        ELSE IF ~ScanParams(parts[4]).ok \/ ~DecodeString(parts[5]).ok \/ ~DecodeString(parts[6]).ok
             THEN HashError("ErrInvalidHash")
        ELSE LET ps == ScanParams(parts[4])
             IN  HashParams(ps.memory, ps.time, ps.threads, DecodeString(parts[5]).b,
                            DecodeString(parts[6]).b, "nil")

\* parseHash
ParseHash(hash) ==
    LET parts == Split(hash)
    IN  IF Len(parts) # 6 THEN HashError("ErrInvalidHash")
        ELSE IF parts[2] # <<Word("argon2id")>> THEN HashError("ErrIncompatibleVariant")
        ELSE IF ~ScanVersion(parts[3]).ok THEN HashError("ErrIncompatibleVersion")
        ELSE IF ScanVersion(parts[3]).version # Argon2Version
             THEN HashError("ErrIncompatibleVersion")
        ELSE IF ~ScanParams(parts[4]).ok THEN HashError("ErrInvalidHash")
        ELSE IF ~DecodeString(parts[5]).ok THEN HashError("ErrInvalidHash")
        ELSE IF ~DecodeString(parts[6]).ok THEN HashError("ErrInvalidHash")
        ELSE LET ps == ScanParams(parts[4])
             IN  HashParams(ps.memory, ps.time, ps.threads, DecodeString(parts[5]).b,
                            DecodeString(parts[6]).b, "nil")

\* passlib.Verify: the error it returns, or "panic" where argon2.IDKey
\* panics (no round, no thread, or no key to derive)
PasslibVerify(password, hash) ==
    LET h == ParseHash(hash)
    IN  IF h.err # "nil" THEN h.err
        ELSE IF h.time < 1 \/ h.threads < 1 \/ h.key = SaltBytes("") THEN "panic"
        ELSE IF h.key # IDKey(password, h.salt, h.time, h.memory, h.threads) THEN "ErrNotMatch"
        ELSE "nil"

\* passlib.NeedsRehash
NeedsRehash(hash) ==
    LET h == ParseHash(hash)
    IN  IF h.err # "nil" THEN TRUE
        ELSE h.memory # DefaultMemoryCost \/ h.time # DefaultTimeCost \/ h.threads # DefaultThreads

\* the text "$" variant "$v=" version "$m=" m ",t=" t ",p=" p "$" salt "$" key
Phc(variant, version, memory, time, threads, salt, key) ==
    <<Dollar, Word(variant), Dollar, Word("v="), Num(version), Dollar,
      Word("m="), Num(memory), Word(",t="), Num(time), Word(",p="), Num(threads), Dollar,
      B64(salt), Dollar, B64(key)>>

\* passlib.Hash(password) with the random salt drawn
PasslibHash(password, salt) ==
    Phc("argon2id", Argon2Version, DefaultMemoryCost, DefaultTimeCost, DefaultThreads, salt,
        IDKey(password, salt, DefaultTimeCost, DefaultMemoryCost, DefaultThreads))

\* passwords, and the salt rand.Read draws
Passwords == {"pw1", "pw2"}

Salt1 == SaltBytes("salt1")

\* how a stored hash string is written: its number of parts, its variant,
\* version, parameters, salt and key
HashKind(shape, variant, version, params, salt, key) ==
    [shape |-> shape, variant |-> variant, version |-> version, params |-> params,
     salt |-> salt, key |-> key]

\* the hash string Hash(password) writes
Fresh(password) == HashKind("six", "argon2id", "19", "default", "ok", password)

HashKinds ==
    {HashKind("six", va, ve, ps, s, k) :
        va \in {"argon2id", "argon2i"}, ve \in {"19", "18", "x", "19x"},
        ps \in {"default", "memory", "time", "threads", "norounds", "wide", "junk"},
        s \in {"ok", "bad"}, k \in Passwords \cup {"bad"}}
    \cup {HashKind(sh, "argon2id", "19", "default", "ok", "pw1") : sh \in {"one", "five", "seven"}}

\* the version part: v=19, v=18, v=x, v=19x
VersionText(version) ==
    CASE version = "19" -> <<Word("v="), Num(Argon2Version)>>
      [] version = "18" -> <<Word("v="), Num(Argon2Version - 1)>>
      [] version = "x" -> <<Word("v=x")>>
      [] version = "19x" -> <<Word("v="), Num(Argon2Version), Word("x")>>

\* the memory, time and threads a parameter part names
ParamsOf(params) ==
    CASE params = "memory" -> [memory |-> DefaultMemoryCost \div 2, time |-> DefaultTimeCost, threads |-> DefaultThreads]
      [] params = "time" -> [memory |-> DefaultMemoryCost, time |-> DefaultTimeCost - 1, threads |-> DefaultThreads]
      [] params = "threads" -> [memory |-> DefaultMemoryCost, time |-> DefaultTimeCost, threads |-> DefaultThreads + 1]
      [] params = "norounds" -> [memory |-> DefaultMemoryCost, time |-> 0, threads |-> DefaultThreads]
      [] params = "wide" -> [memory |-> DefaultMemoryCost, time |-> DefaultTimeCost, threads |-> MaxUint8 + 1]
      [] OTHER -> [memory |-> DefaultMemoryCost, time |-> DefaultTimeCost, threads |-> DefaultThreads]

ParamsText(params) ==
    IF params = "junk" THEN <<Word("xcxcsdsdwe")>>
    ELSE <<Word("m="), Num(ParamsOf(params).memory), Word(",t="), Num(ParamsOf(params).time),
           Word(",p="), Num(ParamsOf(params).threads)>>

\* the hash string of kind d
Render(d) ==
    LET ps == ParamsOf(d.params)
        salt == IF d.salt = "ok" THEN <<B64(Salt1)>> ELSE <<Word("()")>>
        key == IF d.key = "bad" THEN <<Word("()")>>
               ELSE <<B64(IDKey(d.key, Salt1, ps.time, ps.memory, ps.threads))>>
        five == <<Dollar, Word(d.variant), Dollar>> \o VersionText(d.version) \o <<Dollar>>
                    \o ParamsText(d.params) \o <<Dollar>> \o salt
    IN  CASE d.shape = "one" -> <<Word("invalid")>>
          [] d.shape = "five" -> five
          [] d.shape = "six" -> five \o <<Dollar>> \o key
          [] d.shape = "seven" -> five \o <<Dollar>> \o key \o <<Dollar, Word("x")>>

(* ------------------------------- state -------------------------------- *)

VARIABLES
    store,      \* the Redis keyspace: key -> entry
    now,        \* the server clock, in milliseconds
    cl,         \* the bag of goroutine records: per goroutine the call in
                \* flight, or the call it last returned from with its result
    hist,       \* per counter key: Increment scripts executed in the
                \* current window of the key
    creates,    \* per name: Create commands executed
    observed,   \* per name: Verify calls that returned nil or ErrInvalidCode
    prefix,     \* the Prefix fields of the Locker and the Captcha instance
    csrf,       \* the Csrf instance: its Key and IgnoreMethods
    http,       \* the request the csrf middleware last handled, with the
                \* response it gave
    jar,        \* the cookies the browser holds: what SetToken last wrote
    opts,       \* the options csrf.New was given
    passport,   \* the Passport instance: its Issuer and Key
    claims,     \* the Claims value the caller of Create holds
    jwt,        \* the token string last made: what Create returned, or a
                \* string from elsewhere (err "none")
    parsed,     \* what Verify last returned
    phc         \* the password hash at hand, how it is written, and what
                \* passlib.Verify and NeedsRehash last answered for it

\* the state of the csrf middleware, which the store operations leave alone
csrfVars == <<csrf, http, jar, opts>>

\* the state of the passport package
passportVars == <<passport, claims, jwt, parsed>>

\* the state of the packages that do not use the store
appVars == <<csrfVars, passportVars, phc>>

\* the store and its two components, which the other packages leave alone
storeVars == <<store, now, cl, hist, creates, observed, prefix>>

vars == <<store, now, cl, hist, creates, observed, prefix, csrf, http, jar, opts, passport, claims, jwt, parsed, phc>>

LockerOps == {"Increment", "Check", "Get", "Delete"}
CaptchaOps == {"Create", "Exists", "Verify", "CaptchaDelete"}

NoResult == Result(0, FALSE, "", "nil")

\* what becomes of a command: executed and answered, executed with the
\* reply lost, or never executed
Fates == {"ok", "lost", "dropped"}

Run(fate, s, out) ==
    CASE fate = "ok" -> out
      [] fate = "lost" -> Out(out.store, IoError)
      [] fate = "dropped" -> Out(s, IoError)

\* a goroutine's record: the method, the name it was called with and the
\* result.  live tells that res.n is a count Increment returned in the
\* window that is still open
Idle(op, name, live, res) ==
    [phase |-> "idle", op |-> op, name |-> name, live |-> live, res |-> res]

Sent(op) ==
    [phase |-> "sent", op |-> op, name |-> "", live |-> FALSE, res |-> NoResult]

\* some goroutine is inside method op
InFlight(op) == BagIn(Sent(op), cl)

\* one goroutine passes from record old to record new
Swap(b, old, new) == (b (-) SetToBag({old})) (+) SetToBag({new})

\* a window ends when its key goes away
CloseWindows(h, s) == [k \in DOMAIN h |-> IF s[k].present THEN h[k] ELSE 0]

CloseRecord(r, s) ==
    IF r.live /\ ~s[Key(prefix.locker, r.name)].present THEN [r EXCEPT !.live = FALSE] ELSE r

CloseLive(b, s) == BagOfAll(LAMBDA r : CloseRecord(r, s), b)

\* the goroutine inside method op returns res
Returned(op, name, live, res, s) ==
    CloseLive(Swap(cl, Sent(op), Idle(op, name, live, res)), s)

\* no request handled yet
NoExchange == [req |-> Request("", "", NoHeader), resp |-> Passed]

\* the csrf middleware constructed with a key and no other option
CsrfInit ==
    /\ opts = Options("secret", NoMethods)
    /\ csrf = New(Options("secret", NoMethods))
    /\ http = NoExchange
    /\ jar = NoCookies

\* no token made, nothing verified
NoMint == Minted(Garbled, "none")

NoParse == Parsed(ZeroClaims, "none")

\* passport.New(SetIssuer("dev"), SetKey("key1"))
PassportInit ==
    /\ passport = NewPassport("dev", "key1")
    /\ claims = ZeroClaims
    /\ jwt = NoMint
    /\ parsed = NoParse

\* hash string h of kind d, nothing asked about it yet
Hashed(d, h) == [kind |-> d, hash |-> h, password |-> "", err |-> "none", rehash |-> "none"]

\* the hash of a password, just made
PasslibInit == phc = Hashed(Fresh("pw1"), PasslibHash("pw1", Salt1))

\* the packages that do not use the store, constructed
AppInit == CsrfInit /\ PassportInit /\ PasslibInit

\* an empty store at time 0 and no call in flight, for names ns, keys ks
\* and a number of calling goroutines
StoreInit(ns, ks, callers) ==
    /\ store = [k \in ks |-> Absent]
    /\ now = 0
    /\ cl = [r \in {Idle("none", "", FALSE, NoResult)} |-> callers]
    /\ hist = [k \in ks |-> 0]
    /\ creates = [n \in ns |-> 0]
    /\ observed = [n \in ns |-> 0]

\* locker.New(rdb) and captcha.New(rdb) on an empty store
Init ==
    /\ StoreInit(Names, AllKeys, NClients)
    /\ prefix = [locker |-> LockerPrefix, captcha |-> CaptchaPrefix]
    /\ AppInit

\* a goroutine enters a method; the command leaves for the server
Call(ops) ==
    /\ \E r \in BagToSet(cl), op \in ops :
          /\ r.phase = "idle"
          /\ cl' = Swap(cl, r, Sent(op))
    /\ UNCHANGED <<store, now, hist, creates, observed, prefix>> /\ UNCHANGED appVars

(* --------------------------- locker actions --------------------------- *)

\* Locker.Increment(ctx, name, ttl), its command meeting fate
IncrementWith(name, ttl, fate) ==
    LET key == Key(prefix.locker, name)
        run == IncrWithExpire(store, key, Milliseconds(ttl), now)
        out == Run(fate, store, run)
        res == IncrementResult(out.reply)
        done == fate # "dropped" /\ run.reply.status = "ok"
        h == IF done THEN [hist EXCEPT ![key] = @ + 1] ELSE hist
    IN  /\ InFlight("Increment")
        /\ done => hist[key] < MaxCount
        /\ store' = out.store
        /\ cl' = Returned("Increment", name, res.err = "nil", res, out.store)
        /\ hist' = CloseWindows(h, out.store)
        /\ UNCHANGED <<now, creates, observed, prefix>> /\ UNCHANGED appVars

Increment(name) ==
    \E ttl \in LockerTTLs, fate \in Fates : IncrementWith(name, ttl, fate)

\* Locker.Check(ctx, name, max)
CheckWith(name, max, fate) ==
    LET out == Run(fate, store, RedisGet(store, Key(prefix.locker, name)))
    IN  /\ InFlight("Check")
        /\ store' = out.store
        /\ cl' = Returned("Check", name, FALSE, CheckResult(out.reply, max), out.store)
        /\ hist' = CloseWindows(hist, out.store)
        /\ UNCHANGED <<now, creates, observed, prefix>> /\ UNCHANGED appVars

Check(name) ==
    \E max \in Maxes, fate \in Fates : CheckWith(name, max, fate)

\* Locker.Get(ctx, name)
GetWith(name, fate) ==
    LET out == Run(fate, store, RedisGet(store, Key(prefix.locker, name)))
    IN  /\ InFlight("Get")
        /\ store' = out.store
        /\ cl' = Returned("Get", name, FALSE, GetResult(out.reply), out.store)
        /\ hist' = CloseWindows(hist, out.store)
        /\ UNCHANGED <<now, creates, observed, prefix>> /\ UNCHANGED appVars

Get(name) == \E fate \in Fates : GetWith(name, fate)

\* Locker.Delete(ctx, name)
DeleteWith(name, fate) ==
    LET out == Run(fate, store, RedisDel(store, Key(prefix.locker, name)))
    IN  /\ InFlight("Delete")
        /\ store' = out.store
        /\ cl' = Returned("Delete", name, FALSE, DeleteResult(out.reply), out.store)
        /\ hist' = CloseWindows(hist, out.store)
        /\ UNCHANGED <<now, creates, observed, prefix>> /\ UNCHANGED appVars

Delete(name) == \E fate \in Fates : DeleteWith(name, fate)

(* --------------------------- captcha actions -------------------------- *)

\* Captcha.Create(ctx, name, code, ttl)
CreateWith(name, code, ttl, fate) ==
    LET run == RedisSet(store, Key(prefix.captcha, name), code, ttl, now)
        out == Run(fate, store, run)
    IN  /\ InFlight("Create")
        /\ fate # "dropped" => creates[name] < MaxCreates
        /\ store' = out.store
        /\ cl' = Returned("Create", name, FALSE, CreateResult(out.reply), out.store)
        /\ creates' = IF fate # "dropped"
                      THEN [creates EXCEPT ![name] = @ + 1] ELSE creates
        /\ UNCHANGED <<now, hist, observed, prefix>> /\ UNCHANGED appVars

Create(name) ==
    \E code \in Codes, ttl \in CaptchaTTLs, fate \in Fates :
        CreateWith(name, code, ttl, fate)

\* Captcha.Exists(ctx, name)
ExistsWith(name, fate) ==
    LET out == Run(fate, store, RedisExists(store, Key(prefix.captcha, name)))
    IN  /\ InFlight("Exists")
        /\ store' = out.store
        /\ cl' = Returned("Exists", name, FALSE, ExistsResult(out.reply), out.store)
        /\ UNCHANGED <<now, hist, creates, observed, prefix>> /\ UNCHANGED appVars

Exists(name) == \E fate \in Fates : ExistsWith(name, fate)

\* Captcha.Verify(ctx, name, code)
VerifyWith(name, code, fate) ==
    LET out == Run(fate, store, RedisGetDel(store, Key(prefix.captcha, name)))
        res == VerifyResult(out.reply, code)
    IN  /\ InFlight("Verify")
        /\ store' = out.store
        /\ cl' = Returned("Verify", name, FALSE, res, out.store)
        /\ observed' = IF res.err \in {"nil", "ErrInvalidCode"}
                       THEN [observed EXCEPT ![name] = @ + 1]
                       ELSE observed
        /\ UNCHANGED <<now, hist, creates, prefix>> /\ UNCHANGED appVars

Verify(name) ==
    \E code \in Codes, fate \in Fates : VerifyWith(name, code, fate)

\* Captcha.Delete(ctx, name)
CaptchaDeleteWith(name, fate) ==
    LET out == Run(fate, store, RedisDel(store, Key(prefix.captcha, name)))
    IN  /\ InFlight("CaptchaDelete")
        /\ store' = out.store
        /\ cl' = Returned("CaptchaDelete", name, FALSE, DeleteResult(out.reply), out.store)
        /\ UNCHANGED <<now, hist, creates, observed, prefix>> /\ UNCHANGED appVars

CaptchaDelete(name) == \E fate \in Fates : CaptchaDeleteWith(name, fate)

(* ------------------------------- time --------------------------------- *)

\* a millisecond passes; keys past their deadline are gone
Tick ==
    /\ now < MaxTime
    /\ now' = now + 1
    /\ store' = ExpireKeys(store, now + 1)
    /\ hist' = CloseWindows(hist, ExpireKeys(store, now + 1))
    /\ cl' = CloseLive(cl, ExpireKeys(store, now + 1))
    /\ UNCHANGED <<creates, observed, prefix>> /\ UNCHANGED appVars

(* --------------------------- outside writers -------------------------- *)

\* another user of the store writes a string that is no integer into the
\* counter key: RDb.Set(ctx, x.Key(name), "abc", 10 * time.Second)
Tamper(name) ==
    \E v \in Garbage :
        LET s == RedisSet(store, Key(prefix.locker, name), v, 10 * Second, now).store
        IN  /\ store' = s
            /\ hist' = CloseWindows(hist, s)
            /\ cl' = CloseLive(cl, s)
            /\ UNCHANGED <<now, creates, observed, prefix>> /\ UNCHANGED appVars

(* --------------------------- specifications --------------------------- *)

\* the name the concurrent goroutines contend for
Hot == "a"

\* goroutines calling the Locker methods concurrently on one name
LockerNext ==
    \/ Call(LockerOps)
    \/ Increment(Hot)
    \/ Check(Hot)
    \/ Get(Hot)
    \/ Delete(Hot)
    \/ Tick

LockerSpec == Init /\ [][LockerNext]_vars

\* goroutines calling the Captcha methods concurrently on one name
CaptchaNext ==
    \/ Call(CaptchaOps)
    \/ Create(Hot)
    \/ Exists(Hot)
    \/ Verify(Hot)
    \/ CaptchaDelete(Hot)
    \/ Tick

CaptchaSpec == Init /\ [][CaptchaNext]_vars

\* the Locker methods on a counter key that outside writers share, with no
\* deadline passing
TamperNext ==
    \/ Call(LockerOps)
    \/ Increment(Hot)
    \/ Check(Hot)
    \/ Get(Hot)
    \/ Delete(Hot)
    \/ Tamper(Hot)

TamperSpec == Init /\ [][TamperNext]_vars

\* Locker.Check(ctx, name, max) with a max of zero or less
CheckLow(name) ==
    \E max \in LowMaxes, fate \in Fates : CheckWith(name, max, fate)

\* the Locker methods with every Check given a max of zero or less
LowMaxNext ==
    \/ Call(LockerOps)
    \/ Increment(Hot)
    \/ CheckLow(Hot)
    \/ Get(Hot)
    \/ Delete(Hot)
    \/ Tick

LowMaxSpec == Init /\ [][LowMaxNext]_vars

\* the max of the login handler's Check
Threshold == 1

\* the login handler run by one goroutine or by several
HandlerInit ==
    /\ \E n \in 1..NClients : StoreInit(Names, AllKeys, n)
    /\ prefix = [locker |-> LockerPrefix, captcha |-> CaptchaPrefix]
    /\ AppInit

\* a goroutine whose Check returned nil goes on to Increment
Proceed ==
    /\ BagIn(Idle("Check", Hot, FALSE, Result(0, FALSE, "", "nil")), cl)
    /\ cl' = Swap(cl, Idle("Check", Hot, FALSE, Result(0, FALSE, "", "nil")), Sent("Increment"))
    /\ UNCHANGED <<store, now, hist, creates, observed, prefix>> /\ UNCHANGED appVars

\* every request runs Check(name, max) and, when Check returned nil,
\* Increment(name, ttl)
HandlerNext ==
    \/ Call({"Check"})
    \/ \E fate \in Fates : CheckWith(Hot, Threshold, fate)
    \/ Proceed
    \/ Increment(Hot)
    \/ Tick

HandlerSpec == HandlerInit /\ [][HandlerNext]_vars

\* locker.New(rdb, SetPrefix(p)) and captcha.New(rdb, SetPrefix(q)) with
\* different prefixes on one empty store, called by one goroutine
KeyInit ==
    /\ StoreInit(KeyNames, KeySpace, 1)
    /\ prefix \in {[locker |-> p, captcha |-> q] : p \in LockerPrefixes, q \in CaptchaPrefixes}
    /\ AppInit

\* the name the goroutine passes to the Locker, and to the Captcha
LockerName == "api:users"
CaptchaName == "users"

\* a step of the Locker instance, of the Captcha instance
LockerStep ==
    \/ Increment(LockerName)
    \/ Get(LockerName)
    \/ Delete(LockerName)

CaptchaStep ==
    \/ Create(CaptchaName)
    \/ Exists(CaptchaName)
    \/ CaptchaDelete(CaptchaName)

\* the goroutine calling the two instances
KeyNext ==
    \/ Call({"Increment", "Get", "Delete", "Create", "Exists", "CaptchaDelete"})
    \/ LockerStep
    \/ CaptchaStep

KeySpec == KeyInit /\ [][KeyNext]_vars

\* locker.New(rdb) and captcha.New(rdb) on one empty store, called by one
\* goroutine
PairInit ==
    /\ StoreInit(Names, AllKeys, 1)
    /\ prefix = [locker |-> LockerPrefix, captcha |-> CaptchaPrefix]
    /\ AppInit

\* a Locker call on name n, a Captcha call on name n
LockerOp(n) == Increment(n) \/ Check(n) \/ Get(n) \/ Delete(n)

CaptchaOp(n) == Create(n) \/ Exists(n) \/ Verify(n) \/ CaptchaDelete(n)

\* the goroutine calling the Locker on every name and the Captcha on one
\* of them, one call after the other
PairNext ==
    \/ Call(LockerOps \cup CaptchaOps)
    \/ \E n \in Names : LockerOp(n)
    \/ CaptchaOp(Hot)

PairSpec == PairInit /\ [][PairNext]_vars

\* csrf.New(SetKey(key)), with or without SetIgnoreMethods(ms)
CsrfNew ==
    /\ StoreInit(Names, AllKeys, 1)
    /\ prefix = [locker |-> LockerPrefix, captcha |-> CaptchaPrefix]
    /\ opts \in OptionLists
    /\ csrf = New(opts)
    /\ http = NoExchange
    /\ jar = NoCookies
    /\ PassportInit
    /\ PasslibInit

\* the router passes request r through the handler VerifyToken returned
Handle(r) ==
    /\ http' = [req |-> r, resp |-> VerifyToken(csrf, r)]
    /\ UNCHANGED <<csrf, jar, opts>>
    /\ UNCHANGED <<storeVars, passportVars, phc>>

\* Csrf.SetToken(c): the response sets the salt cookie and the token cookie,
\* and the browser keeps both in place of the ones it held
SetToken ==
    /\ \E salt \in RandomSalts : jar' = SetCookies(csrf, salt)
    /\ UNCHANGED <<csrf, http, opts>>
    /\ UNCHANGED <<storeVars, passportVars, phc>>

\* the browser returns its cookies with a request of method m to instance
\* x, the token cookie echoed in the header
Echo(x, m) ==
    /\ jar # NoCookies
    /\ http' = [req |-> EchoRequest(jar, m), resp |-> VerifyToken(x, EchoRequest(jar, m))]
    /\ UNCHANGED <<csrf, jar, opts>>
    /\ UNCHANGED <<storeVars, passportVars, phc>>

\* the instance that set the cookies and the instances of the other keys
Peers == {NewCsrf(key, csrf.IgnoreMethods) : key \in CsrfKeys}

TokenNext ==
    \/ SetToken
    \/ \E x \in Peers, m \in Methods : Echo(x, m)

TokenSpec == CsrfNew /\ [][TokenNext]_vars

CsrfNext == \E r \in Requests : Handle(r)

CsrfSpec == CsrfNew /\ [][CsrfNext]_vars

\* passport.New(SetIssuer(issuer), SetKey(key))
PassportNew ==
    /\ StoreInit(Names, AllKeys, 1)
    /\ prefix = [locker |-> LockerPrefix, captcha |-> CaptchaPrefix]
    /\ CsrfInit
    /\ passport \in {NewPassport(i, k) : i \in Issuers, k \in PassportKeys}
    /\ claims = ZeroClaims
    /\ jwt = NoMint
    /\ parsed = NoParse
    /\ PasslibInit

\* the login endpoint: auth.Create(&c), which writes the issuer into c
Login(c) ==
    /\ claims' = [c EXCEPT !.Issuer = passport.Issuer]
    /\ jwt' = PassportCreate(passport, c)
    /\ parsed' = NoParse
    /\ UNCHANGED passport
    /\ UNCHANGED <<storeVars, csrfVars, phc>>

\* a token signed elsewhere: jwt.NewWithClaims(alg, c).SignedString(key)
Forge(alg, key, c) ==
    /\ jwt' = Minted(Signed(alg, key, MarshalClaims(c)), "none")
    /\ claims' = ZeroClaims
    /\ parsed' = NoParse
    /\ UNCHANGED passport
    /\ UNCHANGED <<storeVars, csrfVars, phc>>

\* a string that is no token
Garble ==
    /\ jwt' = Minted(Garbled, "none")
    /\ claims' = ZeroClaims
    /\ parsed' = NoParse
    /\ UNCHANGED passport
    /\ UNCHANGED <<storeVars, csrfVars, phc>>

\* the auth middleware: auth.Verify(token) at the present time
AuthMiddleware ==
    /\ jwt # NoMint
    /\ parsed' = PassportVerify(passport, jwt.token, now)
    /\ UNCHANGED <<passport, claims, jwt>>
    /\ UNCHANGED <<storeVars, csrfVars, phc>>

PassportNext ==
    \/ \E c \in ClaimsSet : Login(c)
    \/ \E alg \in Algs, key \in PassportKeys, c \in ForgedClaims : Forge(alg, key, c)
    \/ Garble
    \/ AuthMiddleware
    \/ Tick

PassportSpec == PassportNew /\ [][PassportNext]_vars

\* a hash string of some kind is read from where hashes are kept
PasslibStart ==
    /\ StoreInit(Names, AllKeys, 1)
    /\ prefix = [locker |-> LockerPrefix, captcha |-> CaptchaPrefix]
    /\ CsrfInit
    /\ PassportInit
    /\ phc \in {Hashed(d, Render(d)) : d \in HashKinds}

\* passlib.Hash(password)
HashPassword(password) ==
    /\ phc' = Hashed(Fresh(password), PasslibHash(password, Salt1))
    /\ UNCHANGED <<storeVars, csrfVars, passportVars>>

\* passlib.Verify(password, hash)
VerifyPassword(password) ==
    /\ phc' = [phc EXCEPT !.password = password, !.err = PasslibVerify(password, phc.hash)]
    /\ UNCHANGED <<storeVars, csrfVars, passportVars>>

\* passlib.NeedsRehash(hash)
CheckRehash ==
    /\ phc' = [phc EXCEPT !.rehash = IF NeedsRehash(phc.hash) THEN "true" ELSE "false"]
    /\ UNCHANGED <<storeVars, csrfVars, passportVars>>

PasslibNext ==
    \/ \E password \in Passwords : HashPassword(password)
    \/ \E password \in Passwords : VerifyPassword(password)
    \/ CheckRehash

PasslibSpec == PasslibStart /\ [][PasslibNext]_vars

\* goroutines calling both components on every name
Next ==
    \/ Call(LockerOps \cup CaptchaOps)
    \/ \E n \in Names : Increment(n)
    \/ \E n \in Names : Check(n)
    \/ \E n \in Names : Get(n)
    \/ \E n \in Names : Delete(n)
    \/ \E n \in Names : Create(n)
    \/ \E n \in Names : Exists(n)
    \/ \E n \in Names : Verify(n)
    \/ \E n \in Names : CaptchaDelete(n)
    \/ Tick

Spec == Init /\ [][Next]_vars

(* ----------------------------- properties ----------------------------- *)

\* a goroutine holds record r
Has(b, r) == BagIn(r, b)

\* the record of a goroutine that holds count i, returned by Increment for
\* name n in the window of n that is still open
Live(n, i) == Idle("Increment", n, TRUE, Result(i, FALSE, "", "nil"))

\* the record of a goroutine that returned from method op on name n with
\* integer i and error err
Ret(op, n, i, err) == Idle(op, n, FALSE, Result(i, FALSE, "", err))

\* C1: Increment is one indivisible step.  Inside one window of a counter
\* the stored count equals the number of Increment scripts executed (no lost
\* update), every count a caller got back lies in 1..k for k the number
\* executed so far, and no two callers hold the same count.
C1_IncrementAtomic ==
    \A n \in Names :
        LET k == LockerKey(n)
        IN  /\ store[k].present => ParseInt(store[k].val) = [ok |-> TRUE, n |-> hist[k]]
            /\ ~store[k].present => hist[k] = 0
            /\ \A r \in BagToSet(cl) :
                 (r.live /\ r.name = n) =>
                     /\ r.res.n \in 1..hist[k]
                     /\ CopiesIn(r, cl) = 1

\* two goroutines hold the counts 1 and 2 of one window and the stored
\* count is 2
C1_Witness ==
    /\ Has(cl, Live(Hot, 1)) /\ Has(cl, Live(Hot, 2))
    /\ ParseInt(store[LockerKey(Hot)].val).n = 2

\* C2: the deadline of a counter is the one its creating Increment set.  No
\* step changes the deadline of a counter that exists before and after it,
\* and a step that removes a counter is not an Increment, whatever its ttl.
C2_DeadlineFixed ==
    [][\A n \in Names :
          LET k == LockerKey(n)
          IN  /\ (store[k].present /\ store'[k].present)
                    => store'[k].exp = store[k].exp
              /\ (store[k].present /\ ~store'[k].present) => ~Increment(n)]_vars

\* a counter created at time 0 with a ttl of one millisecond has been
\* incremented MaxCount times and still ends at time 1
C2_Witness ==
    /\ now = 1
    /\ hist[LockerKey(Hot)] = MaxCount
    /\ store[LockerKey(Hot)].present
    /\ store[LockerKey(Hot)].exp = 1

\* C3: a counter that is present has a count of at least 1 and an expiry,
\* also after Increment calls whose command or reply was lost.
C3_CountAndExpiry ==
    \A k \in LockerKeys :
        store[k].present =>
            /\ ParseInt(store[k].val).ok
            /\ ParseInt(store[k].val).n >= 1
            /\ store[k].exp # NoExpiry

\* an Increment returned an error although its script ran, and the counter
\* it created is there with its expiry
C3_Witness ==
    /\ Has(cl, Ret("Increment", Hot, 0, "io"))
    /\ store[LockerKey(Hot)].present
    /\ hist[LockerKey(Hot)] = 1
    /\ store[LockerKey(Hot)].exp # NoExpiry

C5_VerifyOutcomes ==
    [][\A n \in Names, code \in Codes :
          VerifyWith(n, code, "ok") =>
              LET e == store[CaptchaKey(n)]
                  r == CHOOSE err \in {"nil", "ErrInvalidCode", "ErrNotExists", "io", "redis"} :
                          cl' = Swap(cl, Sent("Verify"), Ret("Verify", n, 0, err))
              IN  /\ r \in {"nil", "ErrInvalidCode", "ErrNotExists"}
                  /\ r = "nil" <=> (e.present /\ e.val = code)
                  /\ r = "ErrInvalidCode" <=> (e.present /\ e.val # code)
                  /\ r = "ErrNotExists" <=> ~e.present]_vars

\* two Create commands ran, one goroutine's Verify matched and another's
\* did not
C5_Witness ==
    /\ creates[Hot] = 2
    /\ Has(cl, Ret("Verify", Hot, 0, "nil"))
    /\ Has(cl, Ret("Verify", Hot, 0, "ErrInvalidCode"))

C7_CountAccuracy ==
    [][\A n \in Names :
          LET k == LockerKey(n)
          IN  /\ \A ttl \in LockerTTLs :
                    IncrementWith(n, ttl, "ok") =>
                        /\ cl' = Swap(cl, Sent("Increment"),
                                      IF store'[k].present THEN Live(n, hist[k] + 1)
                                      ELSE Ret("Increment", n, hist[k] + 1, "nil"))
                        /\ store'[k].present =>
                             GetResult(RedisGet(store', k).reply)
                                 = Result(hist[k] + 1, FALSE, "", "nil")
              /\ GetWith(n, "ok") =>
                    cl' = Swap(cl, Sent("Get"), Ret("Get", n, hist[k], "nil"))]_vars

\* MaxCount increments ran in one window; one goroutine holds the last
\* count and another read it with Get
C7_Witness ==
    /\ hist[LockerKey(Hot)] = MaxCount
    /\ Has(cl, Live(Hot, MaxCount))
    /\ Has(cl, Ret("Get", Hot, MaxCount, "nil"))

\* C8: Check(name, max) returns ErrLocked iff the count is at least max and
\* nil iff it is below max (0 for an absent counter), and in every state
\* Check and Get agree.
C8_Agree ==
    \A n \in Names, max \in Maxes :
        LET r == RedisGet(store, LockerKey(n)).reply
        IN  CheckResult(r, max).err = "ErrLocked" <=> GetResult(r).n >= max

C9_ReadOnly ==
    [][(store' # store \/ hist' # hist) => \A n \in Names : ~(Check(n) \/ Get(n))]_vars

\* a counter is present after a refused Check and a failed Get
C9_Witness ==
    /\ store[LockerKey(Hot)].present
    /\ Has(cl, Ret("Check", Hot, 0, "ErrLocked"))
    /\ Has(cl, Ret("Get", Hot, 0, "io"))

ReadsAbsent(s, n) ==
    /\ GetResult(RedisGet(s, LockerKey(n)).reply) = Result(0, FALSE, "", "nil")
    /\ \A max \in Maxes : CheckResult(RedisGet(s, LockerKey(n)).reply, max).err = "nil"

CodeAbsent(s, n) ==
    /\ ~ExistsResult(RedisExists(s, CaptchaKey(n)).reply).b
    /\ \A v \in Codes :
         VerifyResult(RedisGetDel(s, CaptchaKey(n)).reply, v).err = "ErrNotExists"

\* C11: expiry.  A counter created by Increment(name, t) or a code created
\* by Create(name, v, t) is absent once more than t has elapsed since its
\* creation: every entry that is present has a deadline that has not passed,
\* the deadline a creating call sets lies no more than t after the call, and
\* an absent entry reads as 0 / nil / false / ErrNotExists.
C11_Expiry ==
    /\ [](\A k \in AllKeys :
            store[k].present => (store[k].exp # NoExpiry /\ now <= store[k].exp))
    /\ [](\A n \in Names :
            /\ ~store[LockerKey(n)].present => ReadsAbsent(store, n)
            /\ ~store[CaptchaKey(n)].present => CodeAbsent(store, n))
    /\ [][\A n \in Names, fate \in {"ok", "lost"} :
            /\ \A ttl \in LockerTTLs :
                 (IncrementWith(n, ttl, fate)
                    /\ ~store[LockerKey(n)].present /\ store'[LockerKey(n)].present)
                 => (store'[LockerKey(n)].exp - now) * Millisecond <= ttl
            /\ \A code \in Codes, ttl \in CaptchaTTLs :
                 CreateWith(n, code, ttl, fate)
                 => /\ store'[CaptchaKey(n)].exp # NoExpiry
                    /\ (store'[CaptchaKey(n)].exp - now) * Millisecond <= ttl]_vars

\* the goroutine that returns from method op in this step returns an error
Surfaced(op) ==
    \A r \in BagToSet(cl') :
        (r.phase = "idle" /\ r.op = op /\ CopiesIn(r, cl') > CopiesIn(r, cl))
            => r.res.err # "nil"

\* C12: every operation of both components surfaces a store failure.  A
\* call whose command never reached the store, or whose reply was lost,
\* returns a non-nil error to its caller.
C12_SurfacesFailure ==
    [][\A n \in Names, fate \in {"lost", "dropped"} :
          /\ (\E ttl \in LockerTTLs : IncrementWith(n, ttl, fate)) => Surfaced("Increment")
          /\ (\E max \in Maxes : CheckWith(n, max, fate)) => Surfaced("Check")
          /\ GetWith(n, fate) => Surfaced("Get")
          /\ DeleteWith(n, fate) => Surfaced("Delete")
          /\ (\E code \in Codes, ttl \in CaptchaTTLs : CreateWith(n, code, ttl, fate))
                => Surfaced("Create")
          /\ ExistsWith(n, fate) => Surfaced("Exists")
          /\ (\E code \in Codes : VerifyWith(n, code, fate)) => Surfaced("Verify")
          /\ CaptchaDeleteWith(n, fate) => Surfaced("CaptchaDelete")]_vars

\* the counter key of name n holds a string that is no integer
Malformed(n) ==
    store[LockerKey(n)].present /\ ~ParseInt(store[LockerKey(n)].val).ok

\* C13: malformed counter data is an error, never zero.  When the counter
\* key holds a string that is no integer, Get returns (0, parse error),
\* Check returns the parse error (neither nil nor ErrLocked), Increment
\* returns the error of the server's INCR, and none changes the store.
C13_Malformed ==
    [][\A n \in Names :
          Malformed(n) =>
              /\ GetWith(n, "ok") =>
                    cl' = Swap(cl, Sent("Get"), Ret("Get", n, 0, "parse"))
              /\ \A max \in Maxes :
                    CheckWith(n, max, "ok") =>
                        cl' = Swap(cl, Sent("Check"), Ret("Check", n, 0, "parse"))
              /\ \A ttl \in LockerTTLs :
                    IncrementWith(n, ttl, "ok") =>
                        cl' = Swap(cl, Sent("Increment"), Ret("Increment", n, 0, "redis"))
              /\ (Get(n) \/ Check(n) \/ Increment(n)) => store' = store]_vars

\* the counter key holds garbage; a Get came back with the parse error and
\* an Increment with the server's error
C13_Witness ==
    /\ Malformed(Hot)
    /\ Has(cl, Ret("Get", Hot, 0, "parse"))
    /\ Has(cl, Ret("Increment", Hot, 0, "redis"))

\* the record of a goroutine that returned from Create on name n with
\* status str
Status(n, str) == Idle("Create", n, FALSE, Result(0, FALSE, str, "nil"))

\* C14: Create overwrites unconditionally.  A Create(n, v2, t2) executed
\* while a code is stored for n leaves the value v2 with a deadline t2 after
\* this Create, so that Verify(n, v2) returns nil and Verify with any other
\* code returns ErrInvalidCode, and it returns the status "OK".
C14_Overwrite ==
    [][\A n \in Names, v2 \in Codes, t2 \in CaptchaTTLs :
          LET k == CaptchaKey(n)
          IN  /\ \A fate \in {"ok", "lost"} :
                    (store[k].present /\ CreateWith(n, v2, t2, fate)) =>
                        /\ store'[k].present /\ store'[k].val = v2
                        /\ store'[k].exp # NoExpiry
                        /\ store'[k].exp * Millisecond = now * Millisecond + t2
                        /\ \A v \in Codes :
                             VerifyResult(RedisGetDel(store', k).reply, v).err
                                 = IF v = v2 THEN "nil" ELSE "ErrInvalidCode"
              /\ (store[k].present /\ CreateWith(n, v2, t2, "ok")) =>
                    cl' = Swap(cl, Sent("Create"), Status(n, "OK"))]_vars

\* the record of a goroutine that returned from Exists on name n with b
Found(n, b) == Idle("Exists", n, FALSE, Result(0, b, "", "nil"))

\* C15: Exists is read-only.  An Exists the store answers returns true iff
\* a code is stored for the name, and every Exists, whatever becomes of its
\* command, leaves the keyspace as it was, so the Verify that follows
\* returns what it would have returned before.
C15_ExistsReadOnly ==
    [][\A n \in Names :
          LET k == CaptchaKey(n)
          IN  /\ ExistsWith(n, "ok") =>
                    cl' = Swap(cl, Sent("Exists"), Found(n, store[k].present))
              /\ \A fate \in Fates :
                    ExistsWith(n, fate) =>
                        /\ store' = store
                        /\ \A v \in Codes :
                             VerifyResult(RedisGetDel(store', k).reply, v)
                                 = VerifyResult(RedisGetDel(store, k).reply, v)]_vars

\* after one Create an Exists returned true and the Verify after it still
\* succeeded
C15_Witness ==
    /\ creates[Hot] = 1
    /\ Has(cl, Found(Hot, TRUE))
    /\ Has(cl, Ret("Verify", Hot, 0, "nil"))

\* C16: Captcha.Delete invalidates early and is idempotent.  A Delete the
\* store answers returns 1 for a stored code and 0 for none, which it
\* leaves as it was; afterwards no code is stored, Exists is false, Verify
\* with any code returns ErrNotExists and another Delete returns 0.
C16_CaptchaDelete ==
    [][\A n \in Names :
          CaptchaDeleteWith(n, "ok") =>
              LET k == CaptchaKey(n)
              IN  /\ cl' = Swap(cl, Sent("CaptchaDelete"),
                                Ret("CaptchaDelete", n,
                                    IF store[k].present THEN 1 ELSE 0, "nil"))
                  /\ ~store'[k].present
                  /\ ~store[k].present => store' = store
                  /\ CodeAbsent(store', n)
                  /\ DeleteResult(RedisDel(store', k).reply).n = 0]_vars

\* one Create ran; one Delete removed the code and another found nothing
C16_Witness ==
    /\ creates[Hot] = 1
    /\ ~store[CaptchaKey(Hot)].present
    /\ Has(cl, Ret("CaptchaDelete", Hot, 1, "nil"))
    /\ Has(cl, Ret("CaptchaDelete", Hot, 0, "nil"))

\* keys are prefix, ":" and name, as in TestKey
KeyFormat ==
    /\ \A n \in KeyNames :
         /\ Key(prefix.locker, n) = prefix.locker \o ":" \o n
         /\ Key(prefix.captcha, n) = prefix.captcha \o ":" \o n
    /\ LockerKey("login:test") = "locker:login:test"
    /\ Key("rate", "api:users") = "rate:api:users"
    /\ Key("code", "sms:123") = "code:sms:123"

\* no key of the Locker instance is a key of the Captcha instance
KeysApart ==
    \A n1, n2 \in KeyNames : Key(prefix.locker, n1) # Key(prefix.captcha, n2)

\* a step of one instance changes what is stored under a key of the other,
\* which is all the other instance's calls read
Meddles ==
    \/ /\ \E n \in KeyNames :
            store'[Key(prefix.captcha, n)] # store[Key(prefix.captcha, n)]
       /\ LockerStep
    \/ /\ \E n \in KeyNames :
            store'[Key(prefix.locker, n)] # store[Key(prefix.locker, n)]
       /\ CaptchaStep

\* the prefixes differ and neither begins with the other and ":"
Separate(p, q) == p # q /\ ~Extends(p, q) /\ ~Extends(q, p)

\* C17 as stated: keys are prefix:name, and two instances with different
\* prefixes on one store share no key, so that no call through one changes
\* what the other observes.
C17_AnyPrefixes ==
    /\ [](KeyFormat /\ (prefix.locker # prefix.captcha => KeysApart))
    /\ [][prefix.locker # prefix.captcha => ~Meddles]_vars

\* C17, amended: keys are prefix:name, and two instances share no key and
\* do not change what the other observes provided their prefixes differ
\* and neither prefix begins with the other followed by ":" (the default
\* prefixes "locker" and "captcha" are such a pair).
C17_Namespacing ==
    /\ [](KeyFormat /\ (Separate(prefix.locker, prefix.captcha) => KeysApart))
    /\ [](Separate(LockerPrefix, CaptchaPrefix))
    /\ [][Separate(prefix.locker, prefix.captcha) => ~Meddles]_vars

\* a Locker with the prefix "rate" and a Captcha with the default prefix
\* each hold an entry in the one store
C17_Witness ==
    /\ prefix = [locker |-> "rate", captcha |-> CaptchaPrefix]
    /\ store[Key(prefix.locker, LockerName)].present
    /\ store[Key(prefix.captcha, CaptchaName)].present

\* keyspace s with every key but k emptied
Only(s, k) == [j \in DOMAIN s |-> IF j = k THEN s[j] ELSE Absent]

\* what call c answers and leaves under its key depends on that key alone
Local(c) ==
    LET k == CmdKey(c)
        here == Apply(c, store, now)
        alone == Apply(c, Only(store, k), now)
    IN  here.reply = alone.reply /\ here.store[k] = alone.store[k]

\* calls c1 and c2 give the same answers and the same keyspace in either
\* order
Commute(c1, c2) ==
    LET a == Apply(c1, store, now)
        b == Apply(c2, store, now)
        ab == Apply(c2, a.store, now)
        ba == Apply(c1, b.store, now)
    IN  /\ ab.store = ba.store
        /\ ab.reply = b.reply
        /\ ba.reply = a.reply

\* C18: per-name independence.  A step of a Locker or Captcha call on name
\* n changes nothing but the one key of n in its own namespace: every
\* other counter and every code, the code of the same name included, keep
\* value and deadline.  What the call in flight answers depends on its key
\* alone, and it commutes with every call on another key.
C18_Independence ==
    /\ [](\A c \in Cmds : InFlight(c.op) => Local(c))
    /\ [](\A c1 \in Cmds :
            InFlight(c1.op) =>
                \A c2 \in Cmds : CmdKey(c2) # CmdKey(c1) => Commute(c1, c2))
    /\ [][\A n \in Names :
            /\ (\E k \in AllKeys \ {LockerKey(n)} : store'[k] # store[k]) => ~LockerOp(n)
            /\ (\E k \in AllKeys \ {CaptchaKey(n)} : store'[k] # store[k]) => ~CaptchaOp(n)]_vars

\* counters for both names and a code for the name of one of them are
\* stored side by side, the last call having been a Delete that removed
\* one counter
C18_Witness ==
    /\ store[LockerKey("b")].present
    /\ store[CaptchaKey(Hot)].present
    /\ hist[LockerKey("b")] = MaxCount
    /\ Has(cl, Ret("Delete", Hot, 1, "nil"))

\* the count stored for name n
Count(s, n) == ParseInt(s[LockerKey(n)].val).n

\* what Check(ctx, n, max) answers when the store answers it
Locked(s, t, n, max) ==
    CheckResult(RedisGet(s, LockerKey(n)).reply, max).err = "ErrLocked"

\* C19: the count never goes down while the counter exists.  A step that
\* leaves the counter of n in place does not lower its count; a max that is
\* locked stays locked over every such step; and a Check the store answers
\* for a locked max returns ErrLocked.
C19_Monotonic ==
    [][\A n \in Names :
          /\ ( /\ store'[LockerKey(n)] # store[LockerKey(n)]
               /\ store[LockerKey(n)].present
               /\ store'[LockerKey(n)].present )
                => /\ Count(store', n) >= Count(store, n)
                   /\ \A max \in Maxes :
                        Locked(store, now, n, max) => Locked(store', now', n, max)
          /\ \A max \in Maxes :
                (InFlight("Check") /\ Locked(store, now, n, max) /\ CheckWith(n, max, "ok"))
                    => Has(cl', Ret("Check", n, 0, "ErrLocked"))]_vars

\* both goroutines were refused by Check while the counter stands at its
\* highest count
C19_Witness ==
    /\ store[LockerKey(Hot)].present
    /\ Count(store, Hot) = MaxCount
    /\ CopiesIn(Ret("Check", Hot, 0, "ErrLocked"), cl) = NClients

\* the token header of request r carries Tokenize(salt) of instance x
ValidToken(x, r) ==
    r.salt # "" /\ r.header.present /\ r.header.val = Tokenize(x, r.salt)

RightlySigned == jwt.token.alg = "HS256" /\ jwt.token.key = passport.Key

\* the token carries the instance's issuer
RightIssuer == jwt.token.payload.iss = passport.Issuer

\* the token is within its validity period: not expired, not early
InTime ==
    /\ jwt.token.payload.exp # NoDate => now < jwt.token.payload.exp
    /\ jwt.token.payload.nbf # NoDate => now >= jwt.token.payload.nbf

\* C21 as stated: Verify accepts only a token signed with HS256 under the
\* instance's key and carrying its issuer; a token of another key or method
\* is rejected before the issuer is looked at; and every rightly signed
\* token of another issuer is rejected with ErrInvalidIssuer.
C21_IssuerError ==
    [][(AuthMiddleware /\ jwt.token.wf) =>
          /\ parsed'.err = "nil" => (RightlySigned /\ RightIssuer)
          /\ ~RightlySigned => parsed'.err \notin {"nil", "ErrInvalidIssuer"}
          /\ (RightlySigned /\ ~RightIssuer) => parsed'.err = "ErrInvalidIssuer"]_vars

\* C21: Verify accepts a token iff it is signed with HS256 under the
\* instance's key, is within its validity period and carries the instance's
\* issuer.  The checks are decided in this order: another method is
\* rejected with ErrInvalidSigningMethod, then another key with the
\* library's signature error, then an expired or early token with the
\* library's time error, and only then another issuer with
\* ErrInvalidIssuer.
C21_VerifyOrder ==
    [][(AuthMiddleware /\ jwt.token.wf) =>
          /\ parsed'.err = "nil" <=> (RightlySigned /\ InTime /\ RightIssuer)
          /\ jwt.token.alg # "HS256" => parsed'.err = "ErrInvalidSigningMethod"
          /\ (jwt.token.alg = "HS256" /\ ~RightlySigned)
                => parsed'.err = "ErrTokenSignatureInvalid"
          /\ (RightlySigned /\ ~InTime)
                => parsed'.err \in {"ErrTokenExpired", "ErrTokenNotValidYet"}
          /\ (RightlySigned /\ InTime /\ ~RightIssuer)
                => parsed'.err = "ErrInvalidIssuer"]_vars

\* a token of the instance's key and another issuer was rejected for its
\* issuer
C21_Witness ==
    /\ jwt.token.wf /\ RightlySigned /\ ~RightIssuer
    /\ parsed.err = "ErrInvalidIssuer"

\* the token Create returned and the claims it was given carry the
\* instance's issuer
Overwritten ==
    jwt.err = "nil" =>
        (claims.Issuer = passport.Issuer /\ jwt.token.payload.iss = passport.Issuer)

\* data d as it reads after a passage through JSON: an int is a float64, an
\* empty map is nil
ReadBack(d) ==
    IF d.nil \/ d.m = {} THEN NilData
    ELSE MapData({<<e[1], IF e[2].kind = "int" THEN GoValue("float64", e[2].text) ELSE e[2]>> :
                    e \in d.m})

\* C22 as stated: for every claims value, Verify of the token Create
\* returned succeeds on the same instance and returns the same ActiveId,
\* JTI and Data, with the instance's issuer.
C22_EveryClaims ==
    [][(AuthMiddleware /\ jwt.err = "nil") =>
          /\ parsed'.err = "nil"
          /\ parsed'.claims.ActiveId = claims.ActiveId
          /\ parsed'.claims.ID = claims.ID
          /\ parsed'.claims.Data = claims.Data
          /\ parsed'.claims.Issuer = passport.Issuer]_vars

\* C22: Create overwrites the issuer of the claims with the instance's.
\* Verify of the token Create returned, on the same instance and within the
\* validity period of the claims, succeeds and returns the same ActiveId
\* and JTI, the instance's issuer, and the Data as it reads after a passage
\* through JSON; outside the validity period it returns the library's time
\* error.
C22_RoundTrip ==
    /\ []Overwritten
    /\ [][(AuthMiddleware /\ jwt.err = "nil") =>
             /\ InTime =>
                   /\ parsed'.err = "nil"
                   /\ parsed'.claims.ActiveId = claims.ActiveId
                   /\ parsed'.claims.ID = claims.ID
                   /\ parsed'.claims.Data = ReadBack(claims.Data)
                   /\ parsed'.claims.Issuer = passport.Issuer
             /\ ~InTime => parsed'.err \in {"ErrTokenExpired", "ErrTokenNotValidYet"}]_vars

\* the token Create made for claims with a jti and data came back with both
C22_Witness ==
    /\ jwt.err = "nil"
    /\ parsed.err = "nil"
    /\ claims.ID = "jti1"
    /\ claims.Data = MapData({<<"role", GoValue("string", "admin")>>})
    /\ parsed.claims.Data = claims.Data

\* the first check a hash string of kind d fails, in the order of the
\* checks: parts, variant, version, parameters, salt, key
FirstFailure(d) ==
    IF d.shape # "six" THEN "ErrInvalidHash"
    ELSE IF d.variant # "argon2id" THEN "ErrIncompatibleVariant"
    ELSE IF d.version \in {"18", "x"} THEN "ErrIncompatibleVersion"
    ELSE IF d.params \in {"junk", "wide"} THEN "ErrInvalidHash"
    ELSE IF d.salt = "bad" \/ d.key = "bad" THEN "ErrInvalidHash"
    ELSE "nil"

\* C23: parsing a hash reports the first failing check in the order parts
\* (ErrInvalidHash), variant (ErrIncompatibleVariant), version
\* (ErrIncompatibleVersion), parameters, salt and key (ErrInvalidHash).
\* Verify returns that error for a hash that fails to parse and ErrNotMatch
\* only for a well-formed hash; NeedsRehash is true exactly for the hashes
\* that fail to parse or whose memory, time or threads are not the defaults.
C23_ParseOrder ==
    /\ phc.err # "none" =>
          /\ FirstFailure(phc.kind) # "nil" => phc.err = FirstFailure(phc.kind)
          /\ phc.err = "ErrNotMatch" =>
                (FirstFailure(phc.kind) = "nil" /\ phc.kind.key # phc.password)
          /\ phc.err = "nil" =>
                (FirstFailure(phc.kind) = "nil" /\ phc.kind.key = phc.password)
    /\ phc.rehash # "none" =>
          (phc.rehash = "true" <=>
              (FirstFailure(phc.kind) # "nil" \/ phc.kind.params # "default"))

\* a hash of another variant and an old version was refused for its
\* variant, and is to be rehashed
C23_Witness ==
    /\ phc.kind.variant = "argon2i"
    /\ phc.kind.version = "18"
    /\ phc.err = "ErrIncompatibleVariant"
    /\ phc.rehash = "true"

\* an Increment(n, ttl) whose script ran finds no counter and leaves a fresh
\* window: count 1, the deadline ttl from now, and 1 returned when the reply
\* arrives
FreshWindow(n, ttl) ==
    LET k == LockerKey(n)
    IN  \A fate \in {"ok", "lost"} :
            (~store[k].present /\ IncrementWith(n, ttl, fate)) =>
                /\ store'[k].present
                /\ store'[k].val = Itoa(1)
                /\ store'[k].exp * Millisecond = now * Millisecond + ttl
                /\ hist'[k] = 1
                /\ fate = "ok" => Has(cl', Live(n, 1))

\* C24: a fresh window on re-creation.  Whenever the counter is absent,
\* never created, deleted or expired, the next Increment(n, ttl) returns 1
\* and leaves the counter with count 1 and the deadline of its own ttl,
\* whatever the count and the ttl of an earlier window were.
C24_FreshWindow ==
    [][\A n \in Names, ttl \in LockerTTLs : FreshWindow(n, ttl)]_vars

\* the same for the ttl arguments of a millisecond and more
C24_FreshWindowMs ==
    [][\A n \in Names, ttl \in {d \in LockerTTLs : d >= Millisecond} : FreshWindow(n, ttl)]_vars

C26_EveryTtl ==
    [][\A n \in Names, ttl \in LockerTTLs :
          LET k == LockerKey(n)
          IN  (~store[k].present /\ IncrementWith(n, ttl, "ok")) =>
                /\ \E r \in BagToSet(cl') :
                      /\ r.phase = "idle" /\ r.op = "Increment" /\ r.name = n
                      /\ r.res = Result(1, FALSE, "", "nil")
                /\ store'[k].present
                /\ store'[k].exp # NoExpiry /\ now' < store'[k].exp
                /\ GetResult(RedisGet(store', k).reply) = Result(1, FALSE, "", "nil")
                /\ IncrementResult(IncrWithExpire(store', k, Milliseconds(ttl), now').reply)
                      = Result(2, FALSE, "", "nil")]_vars

\* the same for the ttl arguments of a millisecond and more
C26_MillisecondTtl ==
    [][\A n \in Names, ttl \in {d \in LockerTTLs : d >= Millisecond} :
          LET k == LockerKey(n)
          IN  (~store[k].present /\ IncrementWith(n, ttl, "ok")) =>
                /\ store'[k].present
                /\ GetResult(RedisGet(store', k).reply) = Result(1, FALSE, "", "nil")
                /\ IncrementResult(IncrWithExpire(store', k, Milliseconds(ttl), now').reply)
                      = Result(2, FALSE, "", "nil")]_vars

\* a Create(n, code, ttl) that reached the store leaves the deadline of ttl
\* after the call
Deadlined(n, ttl) ==
    \A code \in Codes, fate \in {"ok", "lost"} :
        CreateWith(n, code, ttl, fate) =>
            /\ store'[CaptchaKey(n)].exp # NoExpiry
            /\ store'[CaptchaKey(n)].exp * Millisecond = now * Millisecond + ttl

\* C27: every one-time code carries an expiry.  For every ttl passed to
\* Create, 0 included, the stored code has the deadline of its creation time
\* plus ttl, and no sequence of Create calls leaves a code that stays present
\* with no deadline.
C27_CodeExpiry ==
    /\ [](\A n \in Names :
            store[CaptchaKey(n)].present => store[CaptchaKey(n)].exp # NoExpiry)
    /\ [][\A n \in Names, ttl \in CaptchaTTLs : Deadlined(n, ttl)]_vars

\* the same for the ttl arguments of whole milliseconds, when no Create was
\* called with another ttl
C27_WholeMilliseconds ==
    [][\A n \in Names, ttl \in {d \in CaptchaTTLs : d > 0 /\ d % Millisecond = 0} :
          Deadlined(n, ttl)]_vars

\* what Check(n, max) and Get(n) return in keyspace s for every max: nil
\* and 0 for an absent counter, ErrLocked for a present one when max <= 0
AbsentOrLow(s, n) ==
    LET r == RedisGet(s, LockerKey(n)).reply
    IN  \A max \in LowMaxes \cup Maxes :
            /\ ~s[LockerKey(n)].present =>
                  (CheckResult(r, max).err = "nil" /\ GetResult(r) = Result(0, FALSE, "", "nil"))
            /\ (s[LockerKey(n)].present /\ max <= 0) =>
                  CheckResult(r, max).err = "ErrLocked"

C29_TokenFits ==
    /\ [](jar # NoCookies => (jar.salt # "" /\ jar.token = Tokenize(csrf, jar.salt)))
    /\ [][SetToken => (jar' # jar => (jar'.salt # jar.salt /\ jar'.token # jar.token))]_vars
    /\ [][\A x \in Peers, m \in Methods \ csrf.IgnoreMethods :
             Echo(x, m) =>
                 http'.resp = IF x.Key = csrf.Key THEN Passed
                              ELSE Aborted(StatusForbidden, "ErrInvalidToken")]_vars

\* a pair of cookies echoed in a POST was refused by an instance with
\* another key, and a later SetToken replaced the pair
C29_Witness ==
    /\ jar # NoCookies
    /\ "POST" \notin csrf.IgnoreMethods
    /\ http.req.method = "POST"
    /\ http.req.salt # "" /\ http.req.salt # jar.salt
    /\ http.req.header = Header(Tokenize(csrf, http.req.salt))
    /\ http.resp = Aborted(StatusForbidden, "ErrInvalidToken")

\* the methods that are to skip verification: the four safe ones by
\* default, those of ms after SetIgnoreMethods(ms)
Skipped ==
    IF opts.ignore.given THEN opts.ignore.ms ELSE {"GET", "HEAD", "OPTIONS", "TRACE"}

\* C30: SetIgnoreMethods replaces the default ignored set.  By default
\* exactly GET, HEAD, OPTIONS and TRACE skip verification; after
\* SetIgnoreMethods(ms) exactly the methods of ms skip it, so that a GET is
\* verified, and rejected without a valid salt and token, when ms does not
\* contain GET.
C30_IgnoreReplaced ==
    /\ [](csrf.IgnoreMethods = Skipped)
    /\ [][LET r == http'.req
           IN  Handle(r) =>
                  /\ r.method \in Skipped => http'.resp = Passed
                  /\ r.method \notin Skipped =>
                        (http'.resp.next <=> ValidToken(csrf, r))]_vars

\* a GET without salt cookie was rejected by an instance made with
\* SetIgnoreMethods({"POST"})
C30_Witness ==
    /\ opts.ignore = Given({"POST"})
    /\ http.req.method = "GET"
    /\ http.req.salt = ""
    /\ http.resp = Aborted(StatusForbidden, "ErrMissingSalt")

====
